---------------------------- MODULE Spec2Model ----------------------------
(***************************************************************************)
(* A model of the multi-server MCP client of src/mcp_client.py: the        *)
(* connection registry of MCPManager (connect_to_server, cleanup), the     *)
(* tool-name router (_get_all_tools_for_llm and the split in               *)
(* process_query), the two-phase query loop (process_query), the           *)
(* concurrent connect phase (connect_to_servers), the role profiles and    *)
(* the reset of the history, the chat loop (handle_command, chat_loop)     *)
(* and main.                                                               *)
(*                                                                         *)
(* Strings are sequences of one-character strings, so that concatenation   *)
(* and str.split work on characters as they do in Python.                  *)
(***************************************************************************)
EXTENDS Integers, Sequences, FiniteSets, TLC

(***************************************************************************)
(* Bounds of the model.                                                    *)
(***************************************************************************)
\* Longest backend id and longest tool name the router specification draws.
MaxNameLen == 2
\* Most connections in a registry the router specification draws.
MaxServers == 2
\* Most tools one connection of the router specification exposes.
MaxTools == 2

(***************************************************************************)
(* Strings.                                                                *)
(***************************************************************************)
\* The characters names are made of.
Chars == {"a", "_"}

\* MCPManager.TOOL_NAME_SEPARATOR, the string "__".
TOOL_NAME_SEPARATOR == <<"_", "_">>

\* All strings over Chars of length lo..hi.
Strings(lo, hi) == UNION {[1..n -> Chars] : n \in lo..hi}

\* str.find: the index (from 1) of the first occurrence of sep in s, 0 when
\* sep does not occur in s.
Find(s, sep) ==
    LET hits == {i \in 1..(Len(s) - Len(sep) + 1) :
                    SubSeq(s, i, i + Len(sep) - 1) = sep}
    IN  IF hits = {} THEN 0
        ELSE CHOOSE i \in hits : \A j \in hits : i <= j

\* str.split(sep, 1): the list of the parts of s around the first occurrence
\* of sep; the one-element list <<s>> when sep does not occur.
Split(s, sep) ==
    LET i == Find(s, sep)
    IN  IF i = 0 THEN <<s>>
        ELSE <<SubSeq(s, 1, i - 1), SubSeq(s, i + Len(sep), Len(s))>>

\* The f-string of _get_all_tools_for_llm: server_id + separator + tool.name.
unique_tool_name(server_id, tool_name) ==
    server_id \o TOOL_NAME_SEPARATOR \o tool_name

\* The elements of a finite set of strings as a sequence, in a fixed order
\* (the iteration order of the connections dict within one run).
RECURSIVE SetToSeq(_)
SetToSeq(S) ==
    IF S = {} THEN <<>>
    ELSE LET x == CHOOSE y \in S : TRUE
         IN  <<x>> \o SetToSeq(S \ {x})

\* The inner loop of _get_all_tools_for_llm: one catalog entry per tool of
\* one connection.
RECURSIVE ToolsOfServer(_, _)
ToolsOfServer(server_id, tools) ==
    IF tools = <<>> THEN <<>>
    ELSE <<[name   |-> unique_tool_name(server_id, Head(tools)),
            server |-> server_id,
            tool   |-> Head(tools)]>>
         \o ToolsOfServer(server_id, Tail(tools))

\* The outer loop of _get_all_tools_for_llm over the ids in `order`.
RECURSIVE CatalogOver(_, _)
CatalogOver(order, conns) ==
    IF order = <<>> THEN <<>>
    ELSE ToolsOfServer(Head(order), conns[Head(order)].tools)
         \o CatalogOver(Tail(order), conns)

\* _get_all_tools_for_llm: conns maps each registered id to its connection,
\* a record with a field tools (the list of its tool names).
get_all_tools_for_llm(conns) == CatalogOver(SetToSeq(DOMAIN conns), conns)


(***************************************************************************)
(* The connection registry: state.                                         *)
(***************************************************************************)
\* Most connect attempts (calls of connect_to_server, each with an
\* AsyncExitStack of its own) in one run.
MaxAttempts == 2
\* Most calls of cleanup in one run.
MaxCleanups == 2

Attempts == 1..MaxAttempts

\* The backend ids the configurations use (keys of "mcpServers").
ServerIds == {<<"a">>, <<"a", "_">>}

\* The configuration objects drawn: each is the value of one "mcpServers"
\* key.  command "" stands for a missing or empty "command"; args is
\* "none" when "args" is not a list, "strs" for a list of strings and
\* "mixed" for a list holding a non-string item.
CfgOk       == [disabled |-> FALSE, command |-> "python", args |-> "strs"]
CfgDisabled == [disabled |-> TRUE,  command |-> "python", args |-> "strs"]
CfgNoCmd    == [disabled |-> FALSE, command |-> "",       args |-> "strs"]
CfgNoList   == [disabled |-> FALSE, command |-> "python", args |-> "none"]
CfgMixed    == [disabled |-> FALSE, command |-> "python", args |-> "mixed"]
Configs     == {CfgOk, CfgDisabled, CfgNoCmd, CfgNoList, CfgMixed}

\* The tool lists a backend may answer list_tools with.
ToolLists == {<<>>, << <<"a">> >>}

\* The awaited steps of connect_to_server, in order.
ConnectSteps == <<"transport", "session", "initialize", "list_tools">>

VARIABLES
    connections,   \* MCPManager.connections: server id -> ServerConnection
    task,          \* the connect_to_server calls: id, config, position, outcome
    stack,         \* the AsyncExitStack of each call: what it holds, its closes
    caller,        \* what the caller of the manager is doing
    todo,          \* cleanup: the connections its loop has still to close
    batch,         \* the running batch of connects: its calls, the ids before it
    held,          \* the exit stacks registered when the last cleanup began
    cleanups,      \* completed calls of cleanup
    messages,      \* MCPManager.messages: the conversation history
    qpc,           \* process_query: where the running query is
    calls,         \* process_query: response_message.tool_calls
    idx,           \* process_query: the tool call the loop is at (from 1)
    qbase,         \* the length of the history when the running query began
    requests,      \* the completion requests of the running query
    fates,         \* what became of each tool call processed so far
    final_text,    \* process_query: the parts of the text it will return
    rt_conns,      \* the router on its own: the registry it is given
    rt_pc,         \* the router on its own: "build", then "resolve"
    available_tools, \* the catalog _get_all_tools_for_llm returned
    resolved,      \* the split of each name of the catalog, in order
    role_config,   \* MCPManager.role_config: role name -> profile
    mainpc,        \* main: where the program is
    loop,          \* chat_loop: where the loop is, or what ended it
    line,          \* chat_loop: the last line input() returned
    cleared        \* history variable: when the last line is a /clear that
                   \* came right after a /role command, the name it gave

\* The state of the registry and of its caller.
regvars == <<connections, task, stack, caller, todo, batch, held, cleanups>>

\* The state of the conversation and of the running query.
qvars == <<messages, qpc, calls, idx, qbase, requests, fates, final_text>>

\* The state of the router taken on its own.
rtvars == <<rt_conns, rt_pc, available_tools, resolved>>

\* The role profiles, and the state of main and of its chat loop.
chatvars == <<role_config, mainpc, loop, line, cleared>>

NoTask == [id |-> <<>>, cfg |-> CfgOk, pc |-> "unused", result |-> "none",
           failedAt |-> "none"]

NoBatch == [slots |-> {}, before |-> {}]

NoStack == [created |-> FALSE, res |-> {}, closes |-> 0, raised |-> FALSE]

Running == {"created", "transport", "session", "initialize", "list_tools",
            "closing"}

Registered(id) == id \in DOMAIN connections

\* The ServerConnection owner of a stack: the ids whose entry holds stack t.
OwnersOf(t) == {id \in DOMAIN connections : connections[id].stack = t}

\* self.connections[server_id] = ServerConnection(session, exit_stack, tools)
Register(conns, id, t, tools) ==
    [i \in DOMAIN conns \cup {id} |->
        IF i = id THEN [stack |-> t, tools |-> tools] ELSE conns[i]]


(***************************************************************************)
(* connect_to_server.                                                      *)
(***************************************************************************)
\* A plausible slip: the duplicate check of lines 75-77 left out.
FirstStepNoDuplicateCheck(id, cfg, conns) ==
    IF cfg.command = "" \/ cfg.args = "none" THEN "invalid"
    ELSE IF cfg.args = "mixed" THEN "raise"
    ELSE "connect"

\* Lines 75-96, which run without an await: what the call does first.
\*   "duplicate": the id is registered, return (75-77);
\*   "invalid":   not command or args is no list, return (83-85);
\*   "raise":     ' '.join(args) raises TypeError on a non-string item (88),
\*                outside the try block;
\*   "connect":   the exit stack is created and the handshake begins (96).
FirstStep(id, cfg, conns) ==
    IF id \in DOMAIN conns THEN "duplicate"
    ELSE IF cfg.command = "" \/ cfg.args = "none" THEN "invalid"
    ELSE IF cfg.args = "mixed" THEN "raise"
    ELSE "connect"

\* What a successful awaited step adds to the exit stack
\* (enter_async_context of stdio_client, then of ClientSession).
Acquired(step) ==
    CASE step = "transport" -> {"transport"}
      [] step = "session"   -> {"session"}
      [] OTHER              -> {}

NextStep(step) ==
    CASE step = "transport"  -> "session"
      [] step = "session"    -> "initialize"
      [] step = "initialize" -> "list_tools"
      [] OTHER               -> "returned"

\* A plausible slip: the except block only prints and leaves the stack open.
AcloseForgotten(st, raises) == st

\* await exit_stack.aclose(): every context the stack holds is exited, also
\* when one of the exits raises.
Aclose(st, raises) ==
    [st EXCEPT !.res = {}, !.closes = @ + 1, !.raised = raises]

\* The first step of a call (lines 75-96).
connect_begin(t) ==
    /\ task[t].pc = "created"
    /\ LET v == FirstStep(task[t].id, task[t].cfg, connections)
       IN  \/ /\ v \in {"duplicate", "invalid"}
              /\ task' = [task EXCEPT ![t].pc = "returned", ![t].result = v]
              /\ UNCHANGED stack
           \/ /\ v = "raise"
              /\ task' = [task EXCEPT ![t].pc = "raised", ![t].result = "error"]
              /\ UNCHANGED stack
           \/ /\ v = "connect"
              /\ task' = [task EXCEPT ![t].pc = "transport"]
              /\ stack' = [stack EXCEPT ![t].created = TRUE]
    /\ UNCHANGED <<connections, caller, todo, batch, held, cleanups, qvars, rtvars, chatvars>>

\* An awaited step of the try block succeeds (lines 98-103).
connect_step(t) ==
    /\ task[t].pc \in {"transport", "session", "initialize"}
    /\ task' = [task EXCEPT ![t].pc = NextStep(@)]
    /\ stack' = [stack EXCEPT ![t].res = @ \cup Acquired(task[t].pc)]
    /\ UNCHANGED <<connections, caller, todo, batch, held, cleanups, qvars, rtvars, chatvars>>

\* list_tools answers and the connection is registered (lines 103-107).
connect_register(t) ==
    /\ task[t].pc = "list_tools"
    /\ \E tools \in ToolLists :
          connections' = Register(connections, task[t].id, t, tools)
    /\ task' = [task EXCEPT ![t].pc = "returned", ![t].result = "connected"]
    /\ UNCHANGED <<stack, caller, todo, batch, held, cleanups, qvars, rtvars, chatvars>>

\* An awaited step of the try block raises an Exception (line 109).
connect_fail(t) ==
    /\ task[t].pc \in {"transport", "session", "initialize", "list_tools"}
    /\ task' = [task EXCEPT ![t].pc = "closing", ![t].failedAt = task[t].pc,
                            ![t].result = "failed"]
    /\ UNCHANGED <<connections, stack, caller, todo, batch, held, cleanups, qvars, rtvars, chatvars>>

\* The except block: await exit_stack.aclose() (line 111), which may raise
\* itself; nothing catches that.
connect_close(t) ==
    /\ task[t].pc = "closing"
    /\ \E raises \in BOOLEAN :
          /\ stack' = [stack EXCEPT ![t] = Aclose(@, raises)]
          /\ task' = [task EXCEPT
                        ![t].pc = IF stack'[t].raised THEN "raised" ELSE "returned"]
    /\ UNCHANGED <<connections, caller, todo, batch, held, cleanups, qvars, rtvars, chatvars>>

(***************************************************************************)
(* connect_to_servers.                                                     *)
(***************************************************************************)
Unused == {t \in Attempts : task[t].pc = "unused"}

Used == Cardinality(Attempts \ Unused)

\* Lines 364-373 up to the await: one call per entry that is not disabled;
\* asyncio.gather runs them concurrently.  entries is the "mcpServers" dict.
connect_to_servers(entries) ==
    /\ caller = "idle"
    /\ DOMAIN entries # {}
    /\ Cardinality(DOMAIN entries) <= Cardinality(Unused)
    /\ LET order == SetToSeq(DOMAIN entries)
           slots == (Used + 1)..(Used + Len(order))
       IN  /\ task' = [t \in Attempts |->
                        IF t \in slots
                        THEN [NoTask EXCEPT
                                !.id  = order[t - Used],
                                !.cfg = entries[order[t - Used]],
                                !.pc  = IF entries[order[t - Used]].disabled
                                        THEN "disabled" ELSE "created"]
                        ELSE task[t]]
           /\ batch' = [slots |-> slots, before |-> DOMAIN connections]
           /\ caller' = IF \E t \in slots : task'[t].pc = "created"
                        THEN "gather" ELSE "idle"
    /\ UNCHANGED <<connections, stack, todo, held, cleanups, qvars, rtvars, chatvars>>

\* await asyncio.gather(*connect_tasks) returns: every call has returned.
gather_join ==
    /\ caller = "gather"
    /\ \A t \in batch.slots : task[t].pc \in {"returned", "disabled"}
    /\ caller' = "idle"
    /\ UNCHANGED <<connections, task, stack, todo, batch, held, cleanups, qvars, rtvars, chatvars>>

\* A call raised: gather (return_exceptions is not set) raises into
\* connect_to_servers and on into main, line 392, outside its try block; the
\* run ends and asyncio.run cancels the calls still running, which do not
\* reach their except block (CancelledError is no Exception).  The event
\* loop has run the first step of every call by then: the calls were
\* scheduled before the exception was.
gather_raise ==
    /\ caller = "gather"
    /\ \E t \in batch.slots : task[t].pc = "raised"
    /\ \A t \in batch.slots : task[t].pc # "created"
    /\ caller' = "crashed"
    /\ task' = [t \in Attempts |->
                  IF task[t].pc \in Running
                  THEN [task[t] EXCEPT !.pc = "cancelled"] ELSE task[t]]
    /\ UNCHANGED <<connections, stack, todo, batch, held, cleanups, qvars, rtvars, chatvars>>

(***************************************************************************)
(* cleanup.                                                                *)
(***************************************************************************)
\* A plausible slip: the try/except around aclose left out, so that the
\* first release that raises ends the loop.
RestAfterReleaseNoTry(rest, raises) == IF raises THEN <<>> ELSE rest

\* The connections the loop of cleanup goes on to after one release: the
\* except block (lines 227-228) only prints.
RestAfterRelease(rest, raises) == rest

\* print and the start of the loop over self.connections.items() (222-223).
cleanup_begin ==
    /\ caller = "idle"
    /\ cleanups < MaxCleanups
    /\ caller' = "cleanup"
    /\ todo' = SetToSeq(DOMAIN connections)
    /\ held' = {connections[id].stack : id \in DOMAIN connections}
    /\ UNCHANGED <<connections, task, stack, batch, cleanups, qvars, rtvars, chatvars>>

\* One pass of the loop: await conn.exit_stack.aclose() (224-228).
cleanup_release ==
    /\ caller = "cleanup"
    /\ todo # <<>>
    /\ \E raises \in BOOLEAN :
          /\ stack' = [stack EXCEPT
                         ![connections[Head(todo)].stack] = Aclose(@, raises)]
          /\ todo' = RestAfterRelease(Tail(todo), raises)
    /\ UNCHANGED <<connections, task, caller, batch, held, cleanups, qvars, rtvars, chatvars>>

\* self.connections.clear() (229) and the return.
cleanup_clear ==
    /\ caller = "cleanup"
    /\ todo = <<>>
    /\ connections' = [i \in {} |-> 0]
    /\ caller' = "idle"
    /\ cleanups' = cleanups + 1
    /\ UNCHANGED <<task, stack, todo, batch, held, qvars, rtvars, chatvars>>


(***************************************************************************)
(* process_query.                                                          *)
(***************************************************************************)
\* Most tool calls in one response of the provider.
MaxCalls == 2
\* A query starts only while the history holds at most this many messages.
MaxHistory == 2

\* The qualified names the provider asks for: tool a of server a; tool a of
\* a server aa, which no configuration names; a name without separator.
CallNames == {<<"a", "_", "_", "a">>, <<"a", "a", "_", "_", "a">>, <<"a">>}

\* The tool-call lists of a first response: call k has id k.  The text of
\* tool_call.function.arguments is not kept: whether json.loads accepts it
\* is drawn when the loop reaches the call.
Responses ==
    UNION {{r \in [1..n -> [id : 1..n, name : CallNames]] :
              \A k \in 1..n : r[k].id = k} : n \in 0..MaxCalls}

Message(role, content, tool_calls, tool_call_id, name) ==
    [role |-> role, content |-> content, tool_calls |-> tool_calls,
     tool_call_id |-> tool_call_id, name |-> name]

SystemMessage    == Message("system", "default", <<>>, 0, <<>>)
UserMessage      == Message("user", "query", <<>>, 0, <<>>)
Assistant(tcs)   == Message("assistant", "text", tcs, 0, <<>>)

\* The dict appended at lines 192-197 (content "result") and 201-206
\* (content "error").
ToolMessage(call, content) == Message("tool", content, <<>>, call.id, call.name)

(***************************************************************************)
(* Role profiles and the reset of the history.                             *)
(***************************************************************************)
\* A key a profile dict does not hold.
Absent == "absent"

\* The role names a caller asks for; "unknown" is in no table.
RoleNames == {"electronic_expert", "technical", "unknown"}

\* The profile dicts of roles.json: "role" and "content" are both optional,
\* and "role" is whatever string the file gives.
RoleProfiles ==
    [electronic_expert |-> [role |-> "user", content |-> Absent],
     technical         |-> [role |-> Absent, content |-> "tech"]]

\* The role-profile tables: the profiles of some of the known names; the
\* empty map is the table of a missing roles.json.
RoleTables ==
    {[n \in D |-> RoleProfiles[n]] : D \in SUBSET {"electronic_expert", "technical"}}

\* dict.get(key, default).
Get(value, default) == IF value = Absent THEN default ELSE value

\* A plausible slip: another default for the role name.
DefaultRoleNameTechnical == "technical"

\* The default of the parameter role_name of _initialize_history (line 40).
DefaultRoleName == "electronic_expert"

\* _initialize_history (lines 40-57): the new value of self.messages.
initialize_history(table, role_name) ==
    IF DOMAIN table # {} /\ role_name \in DOMAIN table
    THEN <<Message(Get(table[role_name].role, "system"),
                   Get(table[role_name].content, "default"),
                   <<>>, 0, <<>>)>>
    ELSE <<SystemMessage>>

\* clear_history (lines 59-61): _initialize_history() without an argument.
clear_history(table) == initialize_history(table, DefaultRoleName)

\* set_role (lines 63-65).
set_role(table, role_name) == initialize_history(table, role_name)


(***************************************************************************)
(* process_query, continued.                                               *)
(***************************************************************************)
\* A plausible slip: the registry check of lines 180-182 left out.
RouteUnchecked(name, conns) ==
    LET parts == Split(name, TOOL_NAME_SEPARATOR)
    IN  IF Len(parts) # 2 THEN [kind |-> "parse_error", server |-> <<>>, tool |-> <<>>]
        ELSE [kind |-> "routed", server |-> parts[1], tool |-> parts[2]]

\* Lines 172-182: the unpacking of split(sep, 1) raises ValueError when the
\* separator is absent; an id outside the registry is skipped as well.
Route(name, conns) ==
    LET parts == Split(name, TOOL_NAME_SEPARATOR)
    IN  IF Len(parts) # 2 THEN [kind |-> "parse_error", server |-> <<>>, tool |-> <<>>]
        ELSE IF parts[1] \notin DOMAIN conns
             THEN [kind |-> "unknown_backend", server |-> parts[1], tool |-> parts[2]]
        ELSE [kind |-> "routed", server |-> parts[1], tool |-> parts[2]]

\* A plausible slip: the except block of lines 198-206 only prints.
ErrorSwallowed(msgs, call) == msgs

\* The except block of lines 198-206: the error is recorded as a tool message.
RecordError(msgs, call) == Append(msgs, ToolMessage(call, "error"))

\* A plausible slip: the loop walks the tool calls last to first.
CallAtReversed(tcs, i) == tcs[Len(tcs) + 1 - i]

\* for tool_call in response_message.tool_calls: the i-th call of the loop.
CallAt(tcs, i) == tcs[i]

\* if response_message.tool_calls: (line 167).
NeedsSecond(tcs) == tcs # <<>>

\* A plausible slip: the second request built like the first, with **tool_kwargs.
SecondRequestLikeFirst(conns) == get_all_tools_for_llm(conns) # <<>>

\* A plausible slip: tools sent whenever a backend is connected.
FirstRequestToolsIfConnected(conns) == DOMAIN conns # {}

\* Whether the first request carries tools and tool_choice (lines 145-148).
FirstRequestTools(conns) == get_all_tools_for_llm(conns) # <<>>

\* Whether the second request carries tools and tool_choice (lines 208-211).
SecondRequestTools(conns) == FALSE

\* A plausible slip: the visible text of the first response left out.
TextOfNothing(content) == <<>>

\* The text of a message content as a part of final_text: one token, or the
\* empty string for a content that is None or "".
TextOf(content) == IF content = "" THEN <<>> ELSE <<content>>

\* The annotation of line 185 for a routed call: the server id and the tool
\* name between brackets.
Annotation(r) == <<"[">> \o r.server \o <<" ">> \o r.tool \o <<"]">>

\* filter(None, final_text): the parts that are not empty.
NonEmpty(part) == part # <<>>

\* "\n".join(parts).
RECURSIVE JoinLines(_)
JoinLines(parts) ==
    IF parts = <<>> THEN <<>>
    ELSE IF Len(parts) = 1 THEN Head(parts)
    ELSE Head(parts) \o <<"\n">> \o JoinLines(Tail(parts))

\* The value process_query returns (line 216).
Returned(parts) == JoinLines(SelectSeq(parts, NonEmpty))

\* A plausible slip: a failing request undoes what the query appended.
HistoryRolledBack(msgs, base) == SubSeq(msgs, 1, base)

\* create() raises (lines 150-158, 208-211): no handler in process_query,
\* the history stays as it is.
HistoryOnProviderError(msgs, base) == msgs

\* Lines 141-158 up to the request: the user message, the catalog, the call
\* of the provider.
StartQuery ==
    /\ caller = "idle"
    /\ qpc \in {"idle", "done", "failed", "cancelled"}
    /\ Len(messages) <= MaxHistory
    /\ messages' = Append(messages, UserMessage)
    /\ qbase' = Len(messages)
    /\ requests' = <<[tools |-> FirstRequestTools(connections),
                     n |-> Len(messages')]>>
    /\ calls' = <<>>
    /\ idx' = 0
    /\ fates' = <<>>
    /\ final_text' = <<>>
    /\ qpc' = "await_first"
    /\ UNCHANGED <<regvars, rtvars>>

\* process_query called on the manager.
process_query ==
    /\ StartQuery
    /\ UNCHANGED chatvars

\* The provider answers the first request (lines 160-167).
first_completion ==
    /\ qpc = "await_first"
    /\ \E r \in Responses :
          /\ messages' = Append(messages, Assistant(r))
          /\ final_text' = IF Assistant(r).content # ""
                           THEN <<TextOf(Assistant(r).content)>> ELSE <<>>
          /\ calls' = r
          /\ idx' = 1
          /\ qpc' = IF NeedsSecond(r) THEN "dispatch" ELSE "done"
    /\ UNCHANGED <<regvars, rtvars, chatvars, qbase, requests, fates>>

\* The provider fails: create() raises out of process_query.
completion_fails ==
    /\ qpc \in {"await_first", "await_second"}
    /\ qpc' = "failed"
    /\ messages' = HistoryOnProviderError(messages, qbase)
    /\ UNCHANGED <<regvars, rtvars, chatvars, calls, idx, qbase, requests, fates,
                   final_text>>

\* One pass of the loop up to its await (lines 169-190).
dispatch ==
    /\ qpc = "dispatch"
    /\ idx <= Len(calls)
    /\ LET call == CallAt(calls, idx)
           r    == Route(call.name, connections)
       IN  \/ /\ r.kind # "routed"
              /\ fates' = Append(fates, [id |-> call.id, fate |-> r.kind])
              /\ idx' = idx + 1
              /\ UNCHANGED <<messages, qpc, final_text>>
           \/ /\ r.kind = "routed"   \* json.loads raises (line 188)
              /\ fates' = Append(fates, [id |-> call.id, fate |-> "decode_error"])
              /\ final_text' = Append(final_text, Annotation(r))
              /\ messages' = RecordError(messages, call)
              /\ idx' = idx + 1
              /\ UNCHANGED qpc
           \/ /\ r.kind = "routed"   \* json.loads returns, call_tool is awaited
              /\ final_text' = Append(final_text, Annotation(r))
              /\ qpc' = "calling"
              /\ UNCHANGED <<messages, idx, fates>>
    /\ UNCHANGED <<regvars, rtvars, chatvars, calls, qbase, requests>>

\* await target_session.call_tool(...) returns a result (lines 190-197).
tool_returns ==
    /\ qpc = "calling"
    /\ messages' = Append(messages, ToolMessage(CallAt(calls, idx), "result"))
    /\ fates' = Append(fates, [id |-> CallAt(calls, idx).id, fate |-> "ok"])
    /\ idx' = idx + 1
    /\ qpc' = "dispatch"
    /\ UNCHANGED <<regvars, rtvars, chatvars, calls, qbase, requests, final_text>>

\* await target_session.call_tool(...) raises (lines 198-206).
tool_raises ==
    /\ qpc = "calling"
    /\ messages' = RecordError(messages, CallAt(calls, idx))
    /\ fates' = Append(fates, [id |-> CallAt(calls, idx).id, fate |-> "call_error"])
    /\ idx' = idx + 1
    /\ qpc' = "dispatch"
    /\ UNCHANGED <<regvars, rtvars, chatvars, calls, qbase, requests, final_text>>

\* The loop is over: the second request (lines 208-211).
second_request ==
    /\ qpc = "dispatch"
    /\ idx > Len(calls)
    /\ requests' = Append(requests, [tools |-> SecondRequestTools(connections),
                                     n |-> Len(messages)])
    /\ qpc' = "await_second"
    /\ UNCHANGED <<regvars, rtvars, chatvars, messages, calls, idx, qbase, fates,
                   final_text>>

\* The provider answers the second request (lines 212-216).
second_completion ==
    /\ qpc = "await_second"
    /\ messages' = Append(messages, Assistant(<<>>))
    /\ final_text' = Append(final_text, TextOf(Assistant(<<>>).content))
    /\ qpc' = "done"
    /\ UNCHANGED <<regvars, rtvars, chatvars, calls, idx, qbase, requests, fates>>


(***************************************************************************)
(* handle_command and chat_loop.                                           *)
(***************************************************************************)
\* A line of input after strip(): an optional "/", a first word, and the
\* rest after the first space (Absent when the line holds no space).
NoLine == [slash |-> FALSE, word |-> "", rest |-> Absent]

\* The lines drawn: a plain query, the commands in lower and upper case,
\* /role without and with a name, a command the client does not know.
Lines ==
    {[slash |-> FALSE, word |-> "hello", rest |-> Absent]}
    \cup {[slash |-> TRUE, word |-> w, rest |-> Absent] :
             w \in {"quit", "QUIT", "clear", "role", "foo"}}
    \cup {[slash |-> TRUE, word |-> "role", rest |-> n] : n \in RoleNames}

\* str.lower() on the words drawn.
Lower(w) == IF w = "QUIT" THEN "quit" ELSE w

\* Whether handle_command calls set_role for the line l (lines 258-261).
SetsRole(l) == l.slash /\ Lower(l.word) = "role" /\ l.rest # Absent /\ l.rest # ""

\* A plausible slip: a command the client does not know clears the history.
handle_command_clears_on_unknown(l, table, msgs) ==
    IF ~l.slash THEN [result |-> "process", messages |-> msgs]
    ELSE IF Lower(l.word) = "quit" THEN [result |-> "quit", messages |-> msgs]
    ELSE IF SetsRole(l)
         THEN [result |-> "continue", messages |-> set_role(table, l.rest)]
    ELSE [result |-> "continue", messages |-> clear_history(table)]

\* handle_command (lines 232-270): the value it returns, and the history
\* it leaves.
handle_command(l, table, msgs) ==
    IF ~l.slash THEN [result |-> "process", messages |-> msgs]
    ELSE IF Lower(l.word) = "quit" THEN [result |-> "quit", messages |-> msgs]
    ELSE IF Lower(l.word) = "clear"
         THEN [result |-> "continue", messages |-> clear_history(table)]
    ELSE IF SetsRole(l)
         THEN [result |-> "continue", messages |-> set_role(table, l.rest)]
    ELSE [result |-> "continue", messages |-> msgs]

\* A plausible slip: no except Exception in the loop, a failed query ends it.
AfterQueryErrorNoHandler == "error"

\* except Exception (lines 298-299): the error is printed, the loop goes on.
AfterQueryError == "input"

\* What ended the loop.
LoopEnds == {"quit", "eof", "interrupt", "error"}

\* input() returns a command (lines 282-288): quit breaks, the others
\* continue.
chat_command ==
    /\ loop = "input"
    /\ \E l \in Lines :
          LET h == handle_command(l, role_config, messages)
          IN  /\ h.result # "process"
              /\ line' = l
              /\ cleared' = IF Lower(l.word) = "clear" /\ SetsRole(line)
                            THEN line.rest ELSE Absent
              /\ messages' = h.messages
              /\ loop' = IF h.result = "quit" THEN "quit" ELSE "input"
    /\ UNCHANGED <<regvars, rtvars, qpc, calls, idx, qbase, requests, fates,
                   final_text, role_config, mainpc>>

\* input() returns a plain line: process_query is called (line 291).
chat_query ==
    /\ loop = "input"
    /\ \E l \in Lines :
          /\ handle_command(l, role_config, messages).result = "process"
          /\ line' = l
    /\ cleared' = Absent
    /\ StartQuery
    /\ loop' = "await"
    /\ UNCHANGED <<role_config, mainpc>>

\* The call of process_query is over: its local variables are gone, the
\* history stays.
QueryLocalsGone ==
    /\ calls' = <<>>
    /\ idx' = 0
    /\ qbase' = 0
    /\ requests' = <<>>
    /\ fates' = <<>>
    /\ final_text' = <<>>
    /\ UNCHANGED messages

\* process_query returned: the response is printed (line 292).
chat_response ==
    /\ loop = "await"
    /\ qpc = "done"
    /\ QueryLocalsGone
    /\ loop' = "input"
    /\ UNCHANGED <<regvars, rtvars, qpc, role_config, cleared, mainpc, line>>

\* process_query raised (lines 298-299).
chat_error ==
    /\ loop = "await"
    /\ qpc = "failed"
    /\ QueryLocalsGone
    /\ loop' = AfterQueryError
    /\ UNCHANGED <<regvars, rtvars, qpc, role_config, cleared, mainpc, line>>

\* input() raises EOFError (lines 294-296).
chat_eof ==
    /\ loop = "input"
    /\ loop' = "eof"
    /\ UNCHANGED <<regvars, qvars, rtvars, role_config, cleared, mainpc, line>>

\* Ctrl-C: KeyboardInterrupt at input() (lines 294-296), or the
\* cancellation of main while it awaits process_query; the query is
\* abandoned where it is.
chat_interrupt ==
    /\ loop \in {"input", "await"}
    /\ loop' = "interrupt"
    /\ qpc' = IF loop = "await" /\ qpc \notin {"done", "failed"}
              THEN "cancelled" ELSE qpc
    /\ UNCHANGED <<regvars, rtvars, messages, calls, idx, qbase, requests,
                   fates, final_text, role_config, cleared, mainpc, line>>


(***************************************************************************)
(* main.                                                                   *)
(***************************************************************************)
\* The "mcpServers" dicts drawn: every map from some server ids to configs.
Dicts == UNION {[D -> Configs] : D \in SUBSET ServerIds}

\* The "mcpServers" dicts main is run with: the backend a alone, and with
\* a second entry that is disabled or has a non-string in its "args".
MainDicts ==
    {e \in Dicts :
        \/ DOMAIN e = {<<"a">>} /\ e[<<"a">>] = CfgOk
        \/ DOMAIN e = ServerIds /\ e[<<"a">>] = CfgOk
                                /\ e[<<"a", "_">>] \in {CfgDisabled, CfgMixed}}

\* await connect_to_servers(manager, server_configs) (line 392), with a
\* server_configs that is not empty.
main_connect ==
    /\ mainpc = "connect"
    /\ batch = NoBatch
    /\ \E e \in MainDicts : connect_to_servers(e)

\* connect_to_servers returned (at once for an empty server_configs) and
\* chat_loop begins (line 395).  The coroutines of the batch are finished
\* and released: what is left of the connect phase is the registry and the
\* exit stacks.
main_chat ==
    /\ mainpc = "connect"
    /\ caller = "idle"
    /\ mainpc' = "chat"
    /\ loop' = "input"
    /\ task' = [t \in Attempts |-> NoTask]
    /\ batch' = NoBatch
    /\ UNCHANGED <<connections, stack, caller, todo, held, cleanups, qvars,
                   rtvars, role_config, cleared, line>>

\* A plausible slip: the shutdown does not wait for the query chat_loop
\* is awaiting.
ChatLoopOverOrAwaiting(l) == l \in LoopEnds \cup {"await"}

\* await chat_loop(manager) is over (line 395): the loop ended.
ChatLoopOver(l) == l \in LoopEnds

\* chat_loop ended, by a break or by an exception: the finally block calls
\* cleanup (lines 396-397).
main_finally ==
    /\ mainpc = "chat"
    /\ ChatLoopOver(loop)
    /\ mainpc' = "finally"
    /\ UNCHANGED <<regvars, qvars, rtvars, role_config, cleared, loop, line>>

\* await manager.cleanup() begins (line 397).
main_cleanup ==
    /\ mainpc = "finally"
    /\ cleanups = 0
    /\ cleanup_begin

\* cleanup returned: main returns.
main_exit ==
    /\ mainpc = "finally"
    /\ cleanups = 1
    /\ caller = "idle"
    /\ mainpc' = "exit"
    /\ UNCHANGED <<regvars, qvars, rtvars, role_config, cleared, loop, line>>


(***************************************************************************)
(* The specifications.                                                     *)
(***************************************************************************)
vars == <<regvars, qvars, rtvars, chatvars>>

\* MCPManager.__init__ (lines 29-38): no connection, the system message.
InitQuery ==
    /\ messages = <<SystemMessage>>
    /\ qpc = "idle"
    /\ calls = <<>>
    /\ idx = 0
    /\ qbase = 0
    /\ requests = <<>>
    /\ fates = <<>>
    /\ final_text = <<>>

\* A manager built without roles.json and used directly, outside main.
NoChat ==
    /\ role_config = [n \in {} |-> 0]
    /\ mainpc = "none"
    /\ loop = "off"
    /\ line = NoLine
    /\ cleared = Absent

\* The router variables of a run that does not take the router on its own.
NoRouterRun ==
    /\ rt_conns = [i \in {} |-> 0]
    /\ rt_pc = "build"
    /\ available_tools = <<>>
    /\ resolved = <<>>

Init ==
    /\ connections = [i \in {} |-> 0]
    /\ task = [t \in Attempts |-> NoTask]
    /\ stack = [t \in Attempts |-> NoStack]
    /\ caller = "idle"
    /\ todo = <<>>
    /\ batch = NoBatch
    /\ held = {}
    /\ cleanups = 0
    /\ InitQuery
    /\ NoRouterRun
    /\ NoChat

Connect(t) ==
    \/ connect_begin(t)
    \/ connect_step(t)
    \/ connect_register(t)
    \/ connect_fail(t)
    \/ connect_close(t)

\* The registry over its life: batches of concurrent connects, and cleanups.
Next ==
    \/ \E e \in Dicts : connect_to_servers(e)
    \/ \E t \in Attempts : Connect(t)
    \/ gather_join
    \/ gather_raise
    \/ cleanup_begin
    \/ cleanup_release
    \/ cleanup_clear

Spec == Init /\ [][Next]_vars


\* The registry as connect_to_servers leaves it when given the ids R, each
\* with a well-formed config, and every handshake succeeds; tl gives the
\* tool list each backend answered.
RegistryAfterConnect(R, tl) ==
    LET order == SetToSeq(R)
        slots == 1..Len(order)
    IN  /\ connections = [id \in R |->
                            [stack |-> CHOOSE k \in slots : order[k] = id,
                             tools |-> tl[id]]]
        /\ task = [t \in Attempts |->
                     IF t \in slots
                     THEN [NoTask EXCEPT !.id = order[t], !.pc = "returned",
                                         !.result = "connected"]
                     ELSE NoTask]
        /\ stack = [t \in Attempts |->
                      IF t \in slots
                      THEN [NoStack EXCEPT !.created = TRUE,
                                           !.res = {"transport", "session"}]
                      ELSE NoStack]
        /\ caller = "idle"
        /\ todo = <<>>
        /\ batch = IF R = {} THEN NoBatch ELSE [slots |-> slots, before |-> {}]
        /\ held = {}
        /\ cleanups = 0

\* A manager after the connect phase, before its first query.
InitConnected ==
    /\ \E R \in SUBSET ServerIds :
          /\ Cardinality(R) <= MaxAttempts
          /\ \E tl \in [R -> ToolLists] : RegistryAfterConnect(R, tl)
    /\ InitQuery
    /\ NoRouterRun
    /\ NoChat

\* The queries of a manager whose connect phase is over.
NextQuery ==
    \/ process_query
    \/ first_completion
    \/ completion_fails
    \/ dispatch
    \/ tool_returns
    \/ tool_raises
    \/ second_request
    \/ second_completion

SpecQuery == InitConnected /\ [][NextQuery]_vars

\* The steps of a query that is running.
QueryRuns ==
    \/ first_completion
    \/ completion_fails
    \/ dispatch
    \/ tool_returns
    \/ tool_raises
    \/ second_request
    \/ second_completion

\* The chat loop.
ChatRuns ==
    \/ chat_command
    \/ chat_query
    \/ chat_response
    \/ chat_error
    \/ chat_eof
    \/ chat_interrupt

\* connect_to_server(server_id, config) is called on the manager and runs
\* as a task of its own, beside the calls that are running (line 67).
connect_to_server(id, cfg) ==
    /\ caller = "idle"
    /\ Unused # {}
    /\ task' = [task EXCEPT ![Used + 1] =
                  [NoTask EXCEPT !.id = id, !.cfg = cfg, !.pc = "created"]]
    /\ UNCHANGED <<connections, stack, caller, todo, batch, held, cleanups,
                   qvars, rtvars, chatvars>>

\* Concurrent calls of connect_to_server on one manager, for any ids.
NextCalls ==
    \/ \E id \in ServerIds, cfg \in Configs : connect_to_server(id, cfg)
    \/ \E t \in Attempts : Connect(t)

SpecCalls == Init /\ [][NextCalls]_vars

\* chat_loop over a manager built with a role table (lines 29-38) and
\* connected to the backend a with its tool a.
InitChat ==
    /\ RegistryAfterConnect({<<"a">>}, [id \in {<<"a">>} |-> << <<"a">> >>])
    /\ role_config \in RoleTables
    /\ messages = initialize_history(role_config, DefaultRoleName)
    /\ qpc = "idle"
    /\ calls = <<>>
    /\ idx = 0
    /\ qbase = 0
    /\ requests = <<>>
    /\ fates = <<>>
    /\ final_text = <<>>
    /\ NoRouterRun
    /\ mainpc = "chat"
    /\ loop = "input"
    /\ line = NoLine
    /\ cleared = Absent

NextChat ==
    \/ ChatRuns
    \/ QueryRuns

SpecChat == InitChat /\ [][NextChat]_vars

\* main (lines 380-397) without roles.json, from the manager it built.
InitMain ==
    /\ RegistryAfterConnect({}, <<>>)
    /\ InitQuery
    /\ NoRouterRun
    /\ role_config = [n \in {} |-> 0]
    /\ mainpc = "connect"
    /\ loop = "off"
    /\ line = NoLine
    /\ cleared = Absent

NextMain ==
    \/ main_connect
    \/ \E t \in Attempts : Connect(t)
    \/ gather_join
    \/ gather_raise
    \/ main_chat
    \/ ChatRuns
    \/ QueryRuns
    \/ main_finally
    \/ main_cleanup
    \/ cleanup_release
    \/ cleanup_clear
    \/ main_exit

SpecMain == InitMain /\ [][NextMain]_vars


(***************************************************************************)
(* The tool-name router on its own: a catalog is built from a registry and *)
(* every name of it is split again, as process_query does with the names   *)
(* the provider sends back.                                                *)
(***************************************************************************)
Names == Strings(1, MaxNameLen)

\* The tool lists with pairwise distinct names, of at most MaxTools tools.
DistinctToolLists ==
    UNION {{l \in [1..n -> Names] : \A i, j \in 1..n : i # j => l[i] # l[j]} :
             n \in 0..MaxTools}

\* The registries drawn: at most MaxServers ids (the keys of a dict are
\* pairwise distinct), each with a list of distinct tool names.
Registries ==
    UNION {[R -> [tools : DistinctToolLists]] :
             R \in {S \in SUBSET Names : Cardinality(S) <= MaxServers}}

InitRouter ==
    /\ RegistryAfterConnect({}, <<>>)
    /\ InitQuery
    /\ NoChat
    /\ rt_conns \in Registries
    /\ rt_pc = "build"
    /\ available_tools = <<>>
    /\ resolved = <<>>

\* available_tools = self._get_all_tools_for_llm() (lines 115-131, 142).
build_catalog ==
    /\ rt_pc = "build"
    /\ available_tools' = get_all_tools_for_llm(rt_conns)
    /\ rt_pc' = "resolve"
    /\ UNCHANGED <<regvars, qvars, chatvars, rt_conns, resolved>>

\* unique_function_name.split(self.TOOL_NAME_SEPARATOR, 1) (line 173) on the
\* next name of the catalog.
resolve_name ==
    /\ rt_pc = "resolve"
    /\ Len(resolved) < Len(available_tools)
    /\ resolved' = Append(resolved,
                     Split(available_tools[Len(resolved) + 1].name,
                           TOOL_NAME_SEPARATOR))
    /\ UNCHANGED <<regvars, qvars, chatvars, rt_conns, rt_pc, available_tools>>

NextRouter ==
    \/ build_catalog
    \/ resolve_name

SpecRouter == InitRouter /\ [][NextRouter]_vars


(***************************************************************************)
(* The claims.                                                             *)
(***************************************************************************)
\* Whether sep occurs in s as a substring.
Contains(s, sep) ==
    \E i \in 1..(Len(s) - Len(sep) + 1) : SubSeq(s, i, i + Len(sep) - 1) = sep

\* C1: round trip of the router.  For every backend id that does not contain
\* the separator and every tool name, splitting the qualified name of the
\* catalog on the first separator gives back (backend id, tool name).
\* Refuted under SpecRouter: the id "a_" with the tool "a" is named "a___a",
\* which splits into "a" and "_a".
C1_RoundTrip ==
    \A k \in 1..Len(resolved) :
        ~Contains(available_tools[k].server, TOOL_NAME_SEPARATOR)
            => resolved[k] = <<available_tools[k].server, available_tools[k].tool>>

\* The number of tools of all connections of a registry.
RECURSIVE SumTools(_, _)
SumTools(ids, conns) ==
    IF ids = {} THEN 0
    ELSE LET id == CHOOSE i \in ids : TRUE
         IN  Len(conns[id].tools) + SumTools(ids \ {id}, conns)

\* C2: the catalog of a registry with pairwise distinct ids, each connection
\* with distinct tool names, has as many entries as there are tools, and its
\* qualified names are pairwise distinct.
\* Refuted under SpecRouter, already for the registries none of whose ids
\* contains the separator (the formula is stated for those): the ids "a"
\* and "a_" with the tools "_a" and "a" both give the name "a___a".
C2_CatalogSizeAndDistinctNames ==
    (/\ rt_pc = "resolve"
     /\ \A id \in DOMAIN rt_conns : ~Contains(id, TOOL_NAME_SEPARATOR)) =>
        /\ Len(available_tools) = SumTools(DOMAIN rt_conns, rt_conns)
        /\ \A i, j \in 1..Len(available_tools) :
              i # j => available_tools[i].name # available_tools[j].name


\* The messages the running query has appended so far.
QueryMessages == SubSeq(messages, qbase + 1, Len(messages))

\* The tool messages among them, in the order of the history.
IsToolMessage(m) == m.role = "tool"
QueryToolMessages == SelectSeq(QueryMessages, IsToolMessage)

\* ParseError: the name holds no separator.
ParseError(name) == ~Contains(name, TOOL_NAME_SEPARATOR)

\* The backend id a name refers to: its shortest prefix followed by the
\* separator.
BackendOf(name) ==
    LET cuts == {i \in 0..(Len(name) - Len(TOOL_NAME_SEPARATOR)) :
                   SubSeq(name, i + 1, i + Len(TOOL_NAME_SEPARATOR))
                       = TOOL_NAME_SEPARATOR}
    IN  SubSeq(name, 1, CHOOSE i \in cuts : \A j \in cuts : i <= j)

\* UnknownBackend: the name parses, and its backend id is not registered.
UnknownBackend(name) == ~ParseError(name) /\ BackendOf(name) \notin DOMAIN connections

Skipped(call) == ParseError(call.name) \/ UnknownBackend(call.name)
NotSkipped(call) == ~Skipped(call)

\* C3: a tool call whose name has no separator or whose backend id is not
\* registered is skipped: when the second completion is requested every call
\* of the batch has been processed, and the history holds for this query
\* exactly the user message, the assistant's tool-call message and one tool
\* message for each call that was not skipped, in order, and none for a
\* skipped call.
C3_SkippedCallsLeaveNoMessage ==
    qpc = "await_second" =>
        LET routed == SelectSeq(calls, NotSkipped)
        IN  /\ Len(fates) = Len(calls)
            /\ requests[Len(requests)].n = Len(messages)
            /\ Len(QueryMessages) = 2 + Len(routed)
            /\ QueryMessages[1] = UserMessage
            /\ QueryMessages[2] = Assistant(calls)
            /\ \A k \in 1..Len(routed) :
                  /\ QueryMessages[2 + k].role = "tool"
                  /\ QueryMessages[2 + k].tool_call_id = routed[k].id
                  /\ QueryMessages[2 + k].name = routed[k].name

\* C3 witness: the second completion is requested after a batch of two
\* calls, the first skipped for its unknown backend, the second routed and
\* answered.
C3_Witness ==
    /\ qpc = "await_second"
    /\ Len(calls) = 2
    /\ UnknownBackend(calls[1].name)
    /\ fates[1].fate = "unknown_backend"
    /\ fates[2].fate = "ok"

\* The positions in the history of the tool messages of this query that
\* carry the tool_call_id id.
ToolMessagesFor(id) ==
    {i \in (qbase + 1)..Len(messages) :
        messages[i].role = "tool" /\ messages[i].tool_call_id = id}

\* C4: for every processed tool call that resolves to a registered backend
\* exactly one tool message with its tool_call_id is in the history: the
\* result on success, an error description when decoding the arguments or
\* the backend call failed.  Such a failure does not end the query: the
\* query fails only on a request to the provider, and the second request is
\* made once every call of the batch has been processed.
C4_OneToolMessagePerRoutedCall ==
    /\ \A k \in 1..Len(fates) :
          LET call == calls[fates[k].id]
          IN  NotSkipped(call) =>
                /\ Cardinality(ToolMessagesFor(call.id)) = 1
                /\ \A i \in ToolMessagesFor(call.id) :
                      /\ messages[i].name = call.name
                      /\ messages[i].content =
                            IF fates[k].fate = "ok" THEN "result" ELSE "error"
    /\ qpc = "failed" => Len(requests) = (IF calls = <<>> THEN 1 ELSE 2)
    /\ Len(requests) = 2 => Len(fates) = Len(calls)
    /\ qpc \in {"dispatch", "calling"} => Len(fates) = idx - 1

\* C4 witness: a query is done whose first tool call failed in the backend
\* and whose second tool call succeeded.
C4_Witness ==
    /\ qpc = "done"
    /\ Len(fates) = 2
    /\ fates[1].fate = "call_error"
    /\ fates[2].fate = "ok"
    /\ Len(requests) = 2

\* C5: the tool calls are dispatched one at a time in the provider's order:
\* while call number idx is being dispatched, every earlier call that was
\* not skipped has its tool message in the history and no later call has
\* one, so the tool messages are in the order of their calls.
C5_CallsInProviderOrder ==
    /\ \A i, j \in 1..Len(QueryToolMessages) :
          i < j => QueryToolMessages[i].tool_call_id
                      < QueryToolMessages[j].tool_call_id
    /\ qpc \in {"dispatch", "calling"} =>
          \A k \in 1..Len(calls) :
              /\ (k < idx /\ NotSkipped(calls[k])) => ToolMessagesFor(k) # {}
              /\ k >= idx => ToolMessagesFor(k) = {}

\* C5 witness: the second of two routed calls is in flight, the tool
\* message of the first is the last message of the history.
C5_Witness ==
    /\ qpc = "calling"
    /\ idx = 2
    /\ messages[Len(messages)].role = "tool"
    /\ messages[Len(messages)].tool_call_id = 1

\* The steps a query may take from one position to the next.
QuerySteps ==
    {<<"idle", "await_first">>, <<"done", "await_first">>,
     <<"failed", "await_first">>,
     <<"await_first", "done">>, <<"await_first", "dispatch">>,
     <<"await_first", "failed">>,
     <<"dispatch", "calling">>, <<"calling", "dispatch">>,
     <<"dispatch", "await_second">>,
     <<"await_second", "done">>, <<"await_second", "failed">>}

\* C6: a query goes from the first completion to done or to the dispatch of
\* the tool calls, from there to the second completion, and from there to
\* done (a failing provider ends it at either completion).  A query that is
\* done asked the provider once when the first response carried no tool
\* call, and twice when it carried one; the second request is made after
\* every call was processed, carries no tools, and its answer is the
\* assistant message that ends the history.
C6_TwoPhaseQuery ==
    /\ [][qpc' # qpc => <<qpc, qpc'>> \in QuerySteps]_vars
    /\ [](qpc = "done" =>
            /\ Len(requests) = (IF calls = <<>> THEN 1 ELSE 2)
            /\ messages[Len(messages)].role = "assistant")
    /\ [](Len(requests) = 2 =>
            /\ Len(fates) = Len(calls)
            /\ ~requests[2].tools
            /\ requests[2].n = Len(messages) - (IF qpc = "done" THEN 1 ELSE 0))

\* C6 witness: a query with a tool call is done after two requests, the
\* first with tools, the second without.
C6_Witness ==
    /\ qpc = "done"
    /\ calls # <<>>
    /\ Len(requests) = 2
    /\ requests[1].tools
    /\ ~requests[2].tools


\* A well-formed entry of "mcpServers": a command and a list of strings.
WellFormed(cfg) == cfg.command # "" /\ cfg.args = "strs"

\* The ids of the running batch whose entry is not disabled and is
\* well-formed, and whose handshake did not fail.
ShouldBeRegistered ==
    {task[t].id : t \in {u \in batch.slots :
                           /\ ~task[u].cfg.disabled
                           /\ WellFormed(task[u].cfg)
                           /\ task[u].failedAt = "none"}}

\* C7: connect_to_servers isolates the failures of the backends.  When the
\* gather of a batch ends, no call of the batch was cut short by the failure
\* of another, and the registry holds, besides what it held before, exactly
\* the entries that are not disabled, are well-formed and whose handshake
\* did not fail.
\* Refuted under Spec: an entry whose "args" list holds a non-string makes
\* its call raise at line 88, gather raises, and the call for the other,
\* well-formed entry is cancelled before it registers.
C7_ConnectIsolatesFailures ==
    [][(caller = "gather" /\ caller' # "gather") =>
          /\ \A t \in batch.slots : task'[t].pc # "cancelled"
          /\ DOMAIN connections' = batch.before \cup ShouldBeRegistered']_vars

\* C8: a connect attempt that failed at the transport, handshake or
\* catalog-fetch step and has ended holds no resource, its exit stack was
\* closed once, and no registry entry holds its stack; every entry of the
\* registry comes from an attempt that returned after all four steps, and
\* its stack holds transport and session until a cleanup closes it.
C8_FailedConnectReleasesAll ==
    /\ \A t \in Attempts :
          (task[t].failedAt # "none" /\ task[t].pc \in {"returned", "raised"}) =>
              /\ stack[t].res = {}
              /\ stack[t].closes = 1
              /\ OwnersOf(t) = {}
    /\ \A id \in DOMAIN connections :
          LET t == connections[id].stack
          IN  /\ task[t].id = id
              /\ task[t].pc = "returned"
              /\ task[t].result = "connected"
              /\ task[t].failedAt = "none"
              /\ stack[t].res = {"transport", "session"} \/ stack[t].closes = 1

\* C8 witness: an attempt that failed at list_tools, with transport and
\* session acquired, has returned while another id is registered.
C8_Witness ==
    \E t \in Attempts :
        /\ task[t].failedAt = "list_tools"
        /\ task[t].pc = "returned"
        /\ stack[t].closes = 1
        /\ \E id \in DOMAIN connections : id # task[t].id

\* C9: a call of connect_to_server for an id that is registered changes
\* neither the registry nor any exit stack, and returns without raising.
C9_DuplicateConnectIsNoOp ==
    [][\A t \in Attempts :
          (/\ task[t].pc = "created"
           /\ task[t].id \in DOMAIN connections
           /\ task'[t].pc \notin {"created", "cancelled"}) =>
              /\ connections' = connections
              /\ stack' = stack
              /\ ~stack'[t].created
              /\ task'[t].pc = "returned"
              /\ task'[t].result = "duplicate"]_vars

\* C9 witness: a call returned as a duplicate, the connection registered
\* before it still holds its own stack, transport and session.
C9_Witness ==
    \E t \in Attempts :
        /\ task[t].result = "duplicate"
        /\ task[t].id \in DOMAIN connections
        /\ connections[task[t].id].stack # t
        /\ stack[connections[task[t].id].stack].res = {"transport", "session"}
        /\ stack[connections[task[t].id].stack].closes = 0

\* C10: when cleanup returns, every exit stack that was registered when it
\* began has been closed exactly once, also when a close raised, and the
\* registry is empty; a cleanup of an empty registry closes nothing; no
\* exit stack is ever closed twice, however often cleanup is called.
C10_CleanupReleasesOnce ==
    /\ [][(caller = "cleanup" /\ caller' # "cleanup") =>
             /\ caller' = "idle"
             /\ DOMAIN connections' = {}
             /\ \A t \in held : stack'[t].closes = 1 /\ stack'[t].res = {}]_vars
    /\ [][(caller = "idle" /\ caller' = "cleanup" /\ DOMAIN connections = {}) =>
             todo' = <<>> /\ held' = {}]_vars
    /\ [](\A t \in Attempts : stack[t].closes <= 1)

\* C10 witness: cleanup was called twice; in the first call the close of
\* each of two registered connections raised, and both were closed.
C10_Witness ==
    /\ cleanups = 2
    /\ caller = "idle"
    /\ \E t1, t2 \in Attempts :
          /\ t1 # t2
          /\ task[t1].result = "connected" /\ task[t2].result = "connected"
          /\ stack[t1].raised /\ stack[t2].raised
          /\ stack[t1].closes = 1 /\ stack[t2].closes = 1

\* The history was just reset: the loop is at input() and nothing has been
\* read since the construction of the manager, or the last line read was a
\* /clear or a /role command with a name.
JustReset ==
    /\ loop = "input"
    /\ \/ line = NoLine
       \/ line.slash /\ Lower(line.word) = "clear"
       \/ SetsRole(line)

\* C11: after any reset (the construction of the manager, clear_history,
\* set_role with a known or an unknown name), whatever the role table, the
\* history has length 1 and its only message has the role system.
\* Refuted under SpecChat: with the profile {"role": "user"} under the name
\* electronic_expert the manager is built with a history whose only message
\* has the role user.
C11_ResetLeavesOneSystemMessage ==
    JustReset => Len(messages) = 1 /\ messages[1].role = "system"

\* A query of a manager without backends is done, and the provider answered
\* it with plain text and no tool call.
PlainTextQueryDone ==
    /\ DOMAIN connections = {}
    /\ qpc = "done"
    /\ calls = <<>>

\* C12 as stated: a query with no connected backend that the provider
\* answers with plain text and no tool call returns exactly that text and
\* leaves the conversation at length 2 (user, assistant).
\* Refuted under SpecQuery: the history of a manager begins with the system
\* message, so the first query leaves it at length 3.
C12_PlainTextLeavesLengthTwo ==
    PlainTextQueryDone =>
        /\ Returned(final_text) = <<Assistant(<<>>).content>>
        /\ Len(messages) = 2

\* C12, amended: such a query returns exactly the text of the response and
\* appends exactly two messages, the user message and the assistant message,
\* after the history it found; on a new manager the history is then the
\* system message, the user message and the assistant message (length 3).
C12_PlainTextAppendsTwo ==
    PlainTextQueryDone =>
        /\ Returned(final_text) = <<Assistant(<<>>).content>>
        /\ Len(requests) = 1
        /\ Len(messages) = qbase + 2
        /\ messages[qbase + 1] = UserMessage
        /\ messages[qbase + 2] = Assistant(<<>>)
        /\ qbase = 1 => (Len(messages) = 3 /\ messages[1] = SystemMessage)

\* C12 witness: the first query of a manager without backends is done with
\* a plain-text answer.
C12_Witness ==
    /\ PlainTextQueryDone
    /\ qbase = 1
    /\ Len(messages) = 3
    /\ Returned(final_text) = <<"text">>

\* C13: a failure of the provider at the first or at the second request
\* ends the query as failed, and the history keeps what was appended up to
\* then: the failing step changes nothing, a query that failed at the first
\* request has appended the user message only, one that failed at the second
\* request the user message, the assistant's tool-call message and one tool
\* message for each call that was not skipped; the failed query appends
\* nothing more (the next change of the history is the user message of the
\* next query).
C13_ProviderFailureKeepsHistory ==
    /\ [][(qpc \in {"await_first", "await_second"} /\ qpc' = "failed") =>
             messages' = messages]_vars
    /\ [][qpc = "failed" =>
             \/ messages' = messages
             \/ qpc' = "await_first" /\ messages' = Append(messages, UserMessage)]_vars
    /\ []((qpc = "failed" /\ Len(requests) = 1) =>
             QueryMessages = <<UserMessage>>)
    /\ []((qpc = "failed" /\ Len(requests) = 2) =>
             /\ Len(QueryMessages) = 2 + Len(SelectSeq(calls, NotSkipped))
             /\ QueryMessages[1] = UserMessage
             /\ QueryMessages[2] = Assistant(calls)
             /\ \A k \in 3..Len(QueryMessages) : QueryMessages[k].role = "tool")
    /\ [](qpc = "failed" => SubSeq(messages, 1, qbase)[1].role = "system")

\* C13 witness: the second request failed after a tool call was answered;
\* the history ends with the tool message.
C13_Witness ==
    /\ qpc = "failed"
    /\ Len(requests) = 2
    /\ Len(QueryMessages) >= 3
    /\ messages[Len(messages)].role = "tool"
    /\ messages[Len(messages)].content = "result"

\* The program has ended: main returned after its finally block, or an
\* exception left main at line 392.
ProgramEnded == mainpc = "exit" \/ caller = "crashed"

\* C14: every connection registered during the connect phase is torn down
\* exactly once at shutdown.  When the program has ended, however it ended
\* after the connect phase began, the exit stack of every connection that
\* is or was in the registry has been closed exactly once.
\* Refuted under SpecMain: the call of one entry raises, gather raises into
\* main at line 392, outside the try block whose finally calls cleanup, and
\* the connection registered for the other entry is never closed.
C14_RegisteredConnectionsTornDown ==
    ProgramEnded =>
        /\ \A id \in DOMAIN connections : stack[connections[id].stack].closes = 1
        /\ \A t \in held : stack[t].closes = 1
        /\ \A t \in Attempts : stack[t].closes <= 1

\* C15: no single failure ends the session.  A query that ends, done or
\* failed on a provider error, hands the loop back to input(); a tool call
\* that is skipped for its malformed name or unknown backend, or whose
\* decoding or execution failed, leaves the query running; a line that is
\* no quit command leaves the loop at input() or starts a query; the loop
\* ends only on the quit command, on end of input or on an interrupt.
C15_FailuresKeepTheSessionAlive ==
    /\ [][(loop = "await" /\ loop' # "await") =>
             loop' \in {"input", "interrupt"}]_vars
    /\ [][(loop = "await" /\ qpc = "failed" /\ loop' # "interrupt") =>
             loop' \in {"await", "input"}]_vars
    /\ [][Len(fates') > Len(fates) =>
             qpc' = "dispatch" /\ loop' = "await"]_vars
    /\ [][(loop = "input" /\ loop' \notin {"input", "await"}) =>
             \/ loop' = "quit" /\ line'.slash /\ Lower(line'.word) = "quit"
             \/ loop' \in {"eof", "interrupt"} /\ line' = line]_vars
    /\ [][(loop = "input" /\ line' # line /\ line'.slash
              /\ Lower(line'.word) # "quit") => loop' = "input"]_vars
    /\ [][(loop \in LoopEnds) => (loop' = loop)]_vars
    /\ [](loop \in {"input", "await", "quit", "eof", "interrupt"})

\* C15 witness: the loop is back at input() after a query in which a tool
\* call failed and the second request to the provider failed; the last line
\* read since is a command the client does not know.
C15_Witness ==
    /\ loop = "input"
    /\ qpc = "failed"
    /\ line.slash /\ Lower(line.word) = "foo"
    /\ messages[Len(messages)].role = "tool"
    /\ messages[Len(messages)].content = "error"

\* C16: the first request of a query carries tools and tool_choice if and
\* only if some registered backend exposes a tool, that is, the catalog is
\* not empty.  With no backend, or with backends that expose no tool, the
\* query is not rejected: its user message is appended and the provider is
\* asked, without tool parameters.
C16_ToolsSentIffCatalogNonEmpty ==
    qpc # "idle" =>
        /\ Len(requests) >= 1
        /\ requests[1].tools =
              (\E id \in DOMAIN connections : connections[id].tools # <<>>)
        /\ requests[1].tools = (Len(get_all_tools_for_llm(connections)) > 0)
        /\ requests[1].n = qbase + 1
        /\ messages[qbase + 1] = UserMessage

\* C16 witness: a manager whose two backends expose no tool answered a
\* query; the provider was asked without tools.
C16_Witness ==
    /\ Cardinality(DOMAIN connections) = 2
    /\ \A id \in DOMAIN connections : connections[id].tools = <<>>
    /\ qpc = "done"
    /\ ~requests[1].tools

\* Whether the sequence a is a prefix of the sequence b.
IsPrefix(a, b) == Len(a) <= Len(b) /\ SubSeq(b, 1, Len(a)) = a

\* A step in which a reset replaces the history: the loop reads a /clear or
\* a /role command with a name while no query is running.
ResetStep ==
    /\ loop = "input"
    /\ loop' = "input"
    /\ (line'.slash /\ Lower(line'.word) = "clear") \/ SetsRole(line')
    /\ Len(messages') = 1

\* The system messages a reset can install from the role table.
Installable == {initialize_history(role_config, n)[1] : n \in RoleNames}

\* C17: the history is append-only within a query.  Every step that is not
\* a reset leaves the history a prefix of what it becomes and leaves its
\* first message alone; while a query runs, on success and on failure, no
\* reset happens, and the history the query found (its first qbase messages)
\* stays as it was; the first message is always one a reset installs.
C17_AppendOnlyWithinQuery ==
    /\ [][IsPrefix(messages, messages') \/ ResetStep]_vars
    /\ [][~ResetStep => messages'[1] = messages[1]]_vars
    /\ [][loop = "await" =>
             /\ IsPrefix(messages, messages')
             /\ loop' = "await" =>
                   /\ qbase' = qbase
                   /\ SubSeq(messages', 1, qbase) = SubSeq(messages, 1, qbase)]_vars
    /\ [](loop = "await" => (qbase >= 1 /\ Len(messages) > qbase))
    /\ [](messages[1] \in Installable)

\* C17 witness: after /role technical and a first query that failed, a
\* second query is running and has appended its user message, the
\* assistant message and a tool message behind the two messages it found.
C17_Witness ==
    /\ loop = "await"
    /\ qbase = 2
    /\ Len(messages) >= 5
    /\ messages[1].content = "tech"
    /\ messages[Len(messages)].role = "tool"

\* A query is being processed.
QueryInFlight == qpc \in {"await_first", "dispatch", "calling", "await_second"}

\* C18: the registry is changed only by the connect phase and by the
\* shutdown, and never while a query is being processed.  A step taken
\* while a query is in flight leaves the registry as it is; a query is in
\* flight only in the chat loop, when every connect call has ended and no
\* cleanup has begun; while a tool call is awaited its backend is
\* registered; the registry changes only when a connect call of the
\* gathered batch registers its connection and when cleanup clears it.
C18_RegistryStableDuringQuery ==
    /\ [][QueryInFlight => connections' = connections]_vars
    /\ [][connections' # connections =>
             \/ /\ mainpc = "connect" /\ caller = "gather"
                /\ \E id \in ServerIds :
                      /\ id \notin DOMAIN connections
                      /\ DOMAIN connections' = DOMAIN connections \cup {id}
             \/ /\ mainpc = "finally" /\ caller = "cleanup"
                /\ DOMAIN connections' = {}]_vars
    /\ [](QueryInFlight =>
             /\ mainpc = "chat" /\ loop = "await" /\ caller = "idle"
             /\ cleanups = 0
             /\ \A t \in Attempts : task[t].pc \notin Running)
    /\ [](qpc = "calling" =>
             /\ Route(calls[idx].name, connections).kind = "routed"
             /\ Route(calls[idx].name, connections).server \in DOMAIN connections
             /\ stack[connections[Route(calls[idx].name, connections).server].stack].closes = 0)

\* C18 witness: main is in its chat loop, a tool call against the
\* registered backend a is awaited, and the stack of a is open.
C18_Witness ==
    /\ mainpc = "chat"
    /\ qpc = "calling"
    /\ <<"a">> \in DOMAIN connections
    /\ stack[connections[<<"a">>].stack].res = {"transport", "session"}
    /\ stack[connections[<<"a">>].stack].closes = 0

\* C19: under every interleaving of concurrent calls of connect_to_server,
\* two calls for one id among them, a registered connection is never
\* replaced by another one, and the exit stack of every call that has ended
\* is either held by exactly one entry of the registry, and open, or held by
\* none and closed.
\* Refuted under SpecCalls: two calls for the id a both pass the check of
\* lines 75-77 before either registers; the second to reach line 106
\* replaces the connection of the first, whose exit stack no entry holds
\* and nothing closes.
C19_NoReplacementNoOrphanStack ==
    /\ [][\A id \in DOMAIN connections :
             id \in DOMAIN connections' => connections'[id] = connections[id]]_vars
    /\ [](\A t \in Attempts :
             (stack[t].created /\ task[t].pc \in {"returned", "raised"}) =>
                 \/ Cardinality(OwnersOf(t)) = 1 /\ stack[t].closes = 0
                 \/ OwnersOf(t) = {} /\ stack[t].closes = 1 /\ stack[t].res = {})

\* The system message derived from the profile named electronic_expert, or
\* the fixed default message when the table has no such profile.
ExpertOrDefaultMessage ==
    IF "electronic_expert" \in DOMAIN role_config
    THEN Message(Get(role_config["electronic_expert"].role, "system"),
                 Get(role_config["electronic_expert"].content, "default"),
                 <<>>, 0, <<>>)
    ELSE Message("system", "default", <<>>, 0, <<>>)

\* C20: clear_history does not keep the role selected earlier.  When the
\* last line read is a /clear that came right after a /role X command, the
\* history is the single message derived from the profile electronic_expert
\* (the default message when the table has none), whatever X was.
C20_ClearForgetsSelectedRole ==
    cleared # Absent =>
        /\ line.slash /\ Lower(line.word) = "clear"
        /\ messages = <<ExpertOrDefaultMessage>>

\* C20 witness: /clear came right after /role technical, with a table that
\* holds both profiles; the history is the message of electronic_expert, not
\* the one of technical.
C20_Witness ==
    /\ cleared = "technical"
    /\ DOMAIN role_config = {"electronic_expert", "technical"}
    /\ messages = <<Message("user", "default", <<>>, 0, <<>>)>>
    /\ messages # set_role(role_config, "technical")

=============================================================================
